---- MODULE Spec2Model ----
(***************************************************************************)
(* libloc: the database reader (src/database.c), the callers that open a   *)
(* database (src/test-database.c, the Python binding) and the address      *)
(* helpers of libloc-private.h.                                            *)
(*                                                                         *)
(* One struct loc_database is modelled together with the file it is opened *)
(* on, the caller's FILE*, the duplicated FILE*, the AS section mapping    *)
(* and the AS handles that loc_database_get_as hands out.                  *)
(*                                                                         *)
(* Spec is the library with one caller, SpecAddr the address helpers,      *)
(* SpecMT threads that read one database, SpecRef threads that take and    *)
(* release references on it, SpecBind the Lua and Python Database objects. *)
(***************************************************************************)
EXTENDS Integers, Sequences, FiniteSets, TLC

(***************************************************************************)
(* Bounds of the model.                                                    *)
(***************************************************************************)
MaxAs == 3          \* longest AS table in a candidate file
MaxUnsorted == 2    \* longest AS table that is not sorted
MaxAsn == 3         \* AS numbers of the tables and of the queries: 1..MaxAsn
MaxRefs == 2        \* most database references the callers hold at once
MaxAsHandles == 2   \* most AS handles the callers hold at once
MaxStr == 2         \* longest vendor or description set on a writer
MaxNetworks == 2    \* most networks an enumerator has to give
MaxCount == 4       \* highest reference count the racing threads drive up to

(***************************************************************************)
(* Program constants.                                                      *)
(***************************************************************************)
MagicSize == 9      \* sizeof(struct loc_database_magic)
HeaderSize == 32    \* sizeof(struct loc_database_header_v0)
AsRecordSize == 8   \* sizeof(struct loc_database_as_v0)
PageSize == 4096    \* mmap() wants a page aligned offset
ENOMEM == 12
EBADF == 9
EINVAL == 22
ENOMSG == 42
ENODEV == 19
ENOENT == 2
NarrowBits == 20    \* a 32 bit type, scaled to fit the checker's integers
WideBits == 30      \* a 64 bit type, scaled likewise
VersionLatest == 1  \* the version the writer emits by default
AddrBytes == 16     \* sizeof(struct in6_addr)

NULL == "NULL"
Pow2(n) == 2^n
AddrBits == 8 * AddrBytes   \* bits of a struct in6_addr
ByteRange == Pow2(8)        \* values of a uint8_t

(***************************************************************************)
(* The builds: the widths of size_t and off_t.  as_count is a size_t and   *)
(* the search bounds of loc_database_get_as are off_t.                     *)
(***************************************************************************)
Builds ==
  { [sizeBits |-> WideBits,   offBits |-> WideBits],     \* LP64
    [sizeBits |-> NarrowBits, offBits |-> NarrowBits],   \* ILP32
    [sizeBits |-> NarrowBits, offBits |-> WideBits] }    \* ILP32, 64 bit off_t

\* Conversion to size_t: reduction modulo 2^width.
ToSizeT(b, x) == x % Pow2(b.sizeBits)

\* Conversion to off_t: two's complement of the off_t width.
ToOffT(b, x) ==
  LET m == x % Pow2(b.offBits)
  IN  IF m >= Pow2(b.offBits - 1) THEN m - Pow2(b.offBits) ELSE m

(***************************************************************************)
(* Big-endian integers of the file: a u32 is four bytes, most significant  *)
(* first.                                                                  *)
(***************************************************************************)
htonl(n) ==
  << (n \div 16777216) % 256, (n \div 65536) % 256, (n \div 256) % 256, n % 256 >>

ntohl(b) == ((b[1] * 256 + b[2]) * 256 + b[3]) * 256 + b[4]

htons(n) == << (n \div 256) % 256, n % 256 >>

ntohs(b) == b[1] * 256 + b[2]

htobe64(n) == << 0, 0, 0, 0 >> \o htonl(n)

be64toh(b) ==
  ((((((b[1] * 256 + b[2]) * 256 + b[3]) * 256 + b[4]) * 256 + b[5]) * 256
      + b[6]) * 256 + b[7]) * 256 + b[8]

(***************************************************************************)
(* Files.  A file is its size and what its bytes hold at the places the   *)
(* reader looks at: the magic and the version at 0, the v0 header behind   *)
(* them, the bytes of the string pool at the declared pool offset and the  *)
(* AS records that are physically in the file at the declared AS offset.   *)
(* Header fields are the big-endian bytes of the file.                     *)
(***************************************************************************)
MAGIC == "LOCDBXX"

DataOffset == MagicSize + HeaderSize

MkFile(size, magic, version, vendor, description, pool, plen, aoff, alen, as) ==
  [ size        |-> size,
    magic       |-> magic,
    version     |-> htons(version),
    created_at  |-> htobe64(size + 1),
    vendor      |-> htonl(vendor),
    description |-> htonl(description),
    pool_offset |-> htonl(DataOffset),
    pool_length |-> htonl(plen),
    as_offset   |-> htonl(aoff),
    as_length   |-> htonl(alen),
    pool        |-> pool,
    as          |-> as,
    mappable    |-> TRUE ]

\* Sequences over S of length 0..n.
SeqsUpTo(S, n) == UNION { [1..k -> S] : k \in 0..n }

\* Pools: bytes, 0 is NUL.  The second one has no NUL after offset 1.
GoodPool == << 0, 1, 0, 2, 1, 0 >>
OpenPool == << 0, 1, 2 >>

\* written by a writer: sections inside the file, AS section page aligned
WellFormed(version, vendor, description, pool, as) ==
  MkFile(PageSize + AsRecordSize * Len(as), MAGIC, version, vendor, description,
         pool, Len(pool), PageSize, AsRecordSize * Len(as), as)

\* the header declares n AS records, the file ends where they should begin
AsTruncated(n) ==
  MkFile(PageSize, MAGIC, 0, 1, 3, GoodPool, Len(GoodPool),
         PageSize, AsRecordSize * n, << >>)

\* the AS section follows the pool directly: its offset is not page aligned
AsMisaligned(as) ==
  MkFile(DataOffset + Len(GoodPool) + AsRecordSize * Len(as), MAGIC, 0, 1, 3,
         GoodPool, Len(GoodPool),
         DataOffset + Len(GoodPool), AsRecordSize * Len(as), as)

\* the file ends inside the declared pool
PoolTruncated ==
  MkFile(DataOffset + 2, MAGIC, 0, 1, 3, << 0, 1 >>, Len(GoodPool),
         PageSize, 0, << >>)

\* a well-formed database on an object that mmap() cannot map
Unmappable(as) ==
  [ WellFormed(0, 1, 3, GoodPool, as) EXCEPT !.mappable = FALSE ]

\* shorter than magic plus header, or not starting with the magic
Stub(size, magic, version) ==
  MkFile(size, magic, version, 0, 0, << >>, 0, 0, 0, << >>)

\* The AS table is sorted strictly ascending by number.
Sorted(as) == \A i \in 1..Len(as) : \A j \in 1..Len(as) : i < j => as[i] < as[j]

\* AS tables of the candidate files: the sorted ones and short unsorted ones
Tables ==
  { as \in SeqsUpTo(1..MaxAsn, MaxAs) : Sorted(as) \/ Len(as) <= MaxUnsorted }

Files ==
     { Stub(0, "", 0), Stub(5, "LOCDB", 0) }                    \* /dev/null, short
  \cup { Stub(PageSize, m, 0) : m \in { "zero", "random" } }       \* /dev/zero, urandom
  \cup { Stub(MagicSize + 10, MAGIC, v) : v \in 0..2 }             \* no room for a header
  \cup { WellFormed(v, 1, 3, GoodPool, << 1, 2 >>) : v \in 1..2 }
  \cup { WellFormed(0, 1, 3, GoodPool, as) : as \in Tables }
  \cup { WellFormed(0, v, d, p, << 2, 3 >>) :
           v \in { 0, 1, 7 }, d \in { 0, 3 }, p \in { GoodPool, OpenPool } }
  \cup { AsTruncated(n) : n \in 1..MaxAs }
  \cup { AsMisaligned(as) : as \in SeqsUpTo(1..MaxAsn, 1) }
  \cup { PoolTruncated }
  \cup { Unmappable(as) : as \in SeqsUpTo(1..MaxAsn, 1) }

\* fread(buf, 1, n, f) at position pos: the number of bytes it delivers
fread(file, pos, n) ==
  IF pos >= file.size THEN 0
  ELSE IF file.size - pos < n THEN file.size - pos ELSE n

(***************************************************************************)
(* The address helpers of libloc-private.h.  A struct in6_addr is its 16   *)
(* bytes s6_addr[0..15]; the C operators on a byte are computed bit by bit.*)
(***************************************************************************)
\* bit k of the byte x, k = 0 the least significant
Bit8(x, k) == (x \div Pow2(k)) % 2

\* the byte whose bit k is f[k]
FromBits(f) ==
  f[0] + 2 * f[1] + 4 * f[2] + 8 * f[3] + 16 * f[4] + 32 * f[5] + 64 * f[6] + 128 * f[7]

\* x & y, x | y, x ^ y and ~x on bytes
And8(x, y) == FromBits([ k \in 0..7 |-> Bit8(x, k) * Bit8(y, k) ])
Or8(x, y) == FromBits([ k \in 0..7 |-> IF Bit8(x, k) + Bit8(y, k) > 0 THEN 1 ELSE 0 ])
Xor8(x, y) == FromBits([ k \in 0..7 |-> (Bit8(x, k) + Bit8(y, k)) % 2 ])
Not8(x) == FromBits([ k \in 0..7 |-> 1 - Bit8(x, k) ])

\* x >> n, and the low byte of x << n (what a store to a uint8_t keeps)
Shr8(x, n) == x \div Pow2(n)
Shl8(x, n) == (x * Pow2(n)) % ByteRange

\* the low byte of -val for an unsigned val: the bit operations of
\* in6_addr_set_bit work bit by bit and the result is stored to a uint8_t
Neg8(val) == (ByteRange - val) % ByteRange

in6_addr_get_bit(address, i) ==
  And8(Shr8(address[i \div 8], 7 - (i % 8)), 1)

in6_addr_set_bit_or(address, i, val) ==
  [ address EXCEPT ![i \div 8] = Or8(@, Shl8(val, 7 - (i % 8))) ]

in6_addr_set_bit(address, i, val) ==
  [ address EXCEPT ![i \div 8] =
      Xor8(@, And8(Xor8(Neg8(val), @), Shl8(1, 7 - (i % 8)))) ]

\* the body of the second loop of loc_prefix_to_bitmask for i < 8
PartialByte_low(i) == Shr8(255, 8 - i)

PartialByte(i) == Shl8(255, 8 - i)

\* for (int i = prefix, j = 0; i > 0; i -= 8, j++)
RECURSIVE BitmaskLoop(_, _, _)
BitmaskLoop(bitmask, i, j) ==
  IF i > 0
    THEN BitmaskLoop([ bitmask EXCEPT ![j] = IF i >= 8 THEN 255 ELSE PartialByte(i) ],
                     i - 8, j + 1)
    ELSE bitmask

ZeroAddress == [ k \in 0..(AddrBytes - 1) |-> 0 ]

loc_prefix_to_bitmask(prefix) == BitmaskLoop(ZeroAddress, prefix, 0)

\* s6_addr32[i] & bitmask->s6_addr32[i] for the four words: the bytes of a
\* word are combined one by one, whatever the byte order
loc_address_and(address, bitmask) ==
  [ k \in 0..(AddrBytes - 1) |-> And8(address[k], bitmask[k]) ]

loc_address_or_plain(address, bitmask) ==
  [ k \in 0..(AddrBytes - 1) |-> Or8(address[k], bitmask[k]) ]

loc_address_or(address, bitmask) ==
  [ k \in 0..(AddrBytes - 1) |-> Or8(address[k], Not8(bitmask[k])) ]

\* the loop of in6_addr_cmp from byte i on
RECURSIVE CmpFrom(_, _, _)
CmpFrom(a1, a2, i) ==
  IF i >= AddrBytes THEN 0
  ELSE IF a1[i] > a2[i] THEN 1
  ELSE IF a1[i] < a2[i] THEN -1
  ELSE CmpFrom(a1, a2, i + 1)

in6_addr_cmp(a1, a2) == CmpFrom(a1, a2, 0)

\* the addresses the helpers are applied to: one byte of a pattern in a
\* field of zeros or of ones, and one address with sixteen different bytes
Addresses ==
  { [ k \in 0..(AddrBytes - 1) |-> IF k = j THEN b ELSE fill ] :
      j \in { 0, 7, AddrBytes - 1 }, b \in { 0, 1, 128, 165, 255 }, fill \in { 0, 255 } }
  \cup { [ k \in 0..(AddrBytes - 1) |-> (37 * k + 90) % ByteRange ] }

\* what the last call of an address helper was given and what it gave back
NoCalc ==
  [ op |-> "none", a |-> ZeroAddress, i |-> 0, val |-> 0, prefix |-> 0,
    out |-> ZeroAddress ]

(***************************************************************************)
(* State.                                                                  *)
(***************************************************************************)
VARIABLES
  build,      \* widths of size_t and off_t of this build
  file,       \* the file the caller's FILE* f is open on
  pos,        \* file position shared by f and its duplicate
  written,    \* the file was produced by loc_writer_write, and from which strings
  streams,    \* the caller's FILE* f and the FILE* dup of copy_file_pointer
  db,         \* struct loc_database
  database,   \* the caller's struct loc_database*, set through **database
  ret,        \* loc_database_new has been called, and its return value
  pool,       \* struct loc_stringpool of the database and the bytes it holds
  mapping,    \* the mmap() of the AS section: its state and file offset
  ctxRefs,    \* references on the loc_ctx
  handles,    \* database references the callers hold and have not released
  freed,      \* how often loc_database_free has run
  asHandles,  \* AS handles the callers hold and have not released
  res,        \* the last call of a reader function and what it gave back
  fault,      \* an access to memory that is not there has happened
  calc,       \* the last call of an address helper
  thr,        \* the reader threads: where each is in its call, and its result
  bounds,     \* the search bounds lo and hi of the loc_database_get_as calls
  self,       \* the Database object of a language binding and its db pointer
  call,       \* the last method call on the Database object and its outcome
  it          \* the iterator of Database.list_networks and its enumerator

\* the database, its file and its callers
libvars == << build, file, pos, written, streams, db, database, ret,
              pool, mapping, ctxRefs, handles, freed, asHandles, res, fault >>

\* the address helpers; the reader threads
addrvars == << calc >>
mtvars == << thr, bounds >>

\* the language bindings
bindvars == << self, call, it >>

\* the variables the database functions leave alone
side == << addrvars, mtvars, bindvars >>

vars == << libvars, addrvars, mtvars, bindvars >>

\* calloc(1, sizeof(*db)): every field zero
Calloc ==
  [ alloc |-> "live", ctx |-> NULL, refcount |-> 0, file |-> NULL, version |-> 0,
    created_at |-> 0, vendor |-> 0, description |-> 0,
    as_v0 |-> NULL, as_count |-> 0, pool |-> NULL ]

NoDb == [ Calloc EXCEPT !.alloc = "none" ]

NoWriter == [ done |-> FALSE, vendor |-> << >>, description |-> << >> ]

NoPool == [ state |-> "none", data |-> << >> ]

NoMapping == [ state |-> "none", offset |-> 0, length |-> 0 ]

\* the caller's struct loc_as* before the call: not initialised
NoAs == [ state |-> "unset", number |-> 0 ]

\* a const char*: NULL or the bytes before the NUL
NullStr == [ null |-> TRUE, s |-> << >> ]

Str(s) == [ null |-> FALSE, s |-> s ]

NoRes == [ op |-> "none", returned |-> FALSE, r |-> 0, as |-> NoAs,
           number |-> 0, fetched |-> 0, released |-> 0, str |-> NullStr ]

\* nothing has been opened, written or called yet
Idle ==
  /\ pos = 0
  /\ written = NoWriter
  /\ streams = [ f |-> "open", dup |-> "none" ]
  /\ db = NoDb
  /\ database = "unassigned"
  /\ ret = [ called |-> FALSE, r |-> 0 ]
  /\ pool = NoPool
  /\ mapping = NoMapping
  /\ ctxRefs = 1
  /\ handles = 0
  /\ freed = 0
  /\ asHandles = 0
  /\ res = NoRes
  /\ fault = FALSE

\* the threads that read one opened database
Threads == { "t1", "t2" }

\* a thread that is in no call
IdleThread ==
  [ pc |-> "idle", op |-> "none", number |-> 0, st |-> NoRes, raced |-> FALSE,
    refs |-> 0 ]

NoThreads == [ t \in Threads |-> IdleThread ]

NoBounds == [ t \in Threads |-> [ lo |-> 0, hi |-> 0 ] ]

\* no Database object has been created by a binding
NoSelf == [ lang |-> "none", state |-> "none", db |-> "none" ]

\* no method has been called
NoCall ==
  [ op |-> "none", number |-> 0, address |-> "none", result |-> "none",
    built |-> "none", released |-> "none" ]

\* Database.list_networks has not been called
NoIterator == [ iter |-> "none", enum |-> "none", count |-> 0, pos |-> 0 ]

Init ==
  /\ build \in Builds
  /\ file \in Files
  /\ Idle
  /\ calc = NoCalc
  /\ thr = NoThreads
  /\ bounds = NoBounds
  /\ self = NoSelf
  /\ call = NoCall
  /\ it = NoIterator

(***************************************************************************)
(* The string pool (stringpool.c).                                         *)
(***************************************************************************)
\* loc_stringpool_read: the pool section must lie inside the file
loc_stringpool_read(f, pool_offset, pool_length) ==
  IF pool_offset + pool_length > f.size
    THEN [ r |-> -EINVAL, data |-> << >> ]
    ELSE [ r |-> 0, data |-> SubSeq(f.pool, 1, pool_length) ]

\* position of the first NUL at or after offset off (1-based), 0 if none
RECURSIVE NulFrom(_, _)
NulFrom(data, i) ==
  IF i > Len(data) THEN 0
  ELSE IF data[i] = 0 THEN i
  ELSE NulFrom(data, i + 1)

\* loc_stringpool_get: the string at offset off, NULL when off is outside the
\* pool or no NUL follows
loc_stringpool_get(p, off) ==
  IF p.state # "live" \/ off < 0 THEN NullStr
  ELSE IF off >= Len(p.data) THEN NullStr
  ELSE IF NulFrom(p.data, off + 1) = 0 THEN NullStr
  ELSE Str(SubSeq(p.data, off + 1, NulFrom(p.data, off + 1) - 1))

(***************************************************************************)
(* The writer (writer.c), as far as the header strings go.                 *)
(***************************************************************************)
\* strings a caller sets as vendor and description
Strings == SeqsUpTo({ 1, 2 }, MaxStr)

\* offsets at which the pool bytes hold the string s
OffsetsOf(data, s) ==
  { o \in 0..(Len(data) - 1) :
      loc_stringpool_get([ state |-> "live", data |-> data ], o) = Str(s) }

\* loc_stringpool_add: the offset of s if the pool has it, else s is appended
loc_stringpool_add(data, s) ==
  IF OffsetsOf(data, s) # {}
    THEN [ data |-> data,
           offset |-> CHOOSE o \in OffsetsOf(data, s) :
                        \A q \in OffsetsOf(data, s) : o <= q ]
    ELSE [ data |-> data \o s \o << 0 >>, offset |-> Len(data) ]

\* sizeof(struct loc_database_header_v1)
HeaderV1Size == 4160

\* loc_writer_write: the file image for a writer with these header strings,
\* no AS, no network, no country; the pool starts with the empty string
WriterImage(vendor, description) ==
  LET v == loc_stringpool_add(<< 0 >>, vendor)
      d == loc_stringpool_add(v.data, description)
      start == MagicSize + HeaderV1Size
      img == MkFile(start + Len(d.data), MAGIC, VersionLatest, v.offset, d.offset,
                    d.data, Len(d.data), start + Len(d.data), 0, << >>)
  IN  [ img EXCEPT !.pool_offset = htonl(start) ]

(***************************************************************************)
(* Opening a database (database.c).  The static helpers take the database  *)
(* object d, the file f and the position p and give back their return      *)
(* value together with what they changed.                                  *)
(***************************************************************************)
\* the bytes fread() puts into magic.magic and magic.version
MagicAt(f, p) == IF p = 0 THEN f.magic ELSE "other"

VersionAt(f, p) == IF p = 0 THEN f.version ELSE htons(0)

loc_database_read_magic(d, f, p) ==
  LET bytes_read == fread(f, p, MagicSize)
  IN  IF bytes_read < MagicSize
        THEN [ r |-> -ENOMSG, db |-> d, pos |-> p + bytes_read ]
      ELSE IF MagicAt(f, p) = MAGIC
        THEN [ r |-> 0, db |-> [ d EXCEPT !.version = ntohs(VersionAt(f, p)) ],
               pos |-> p + bytes_read ]
      ELSE [ r |-> 1, db |-> d, pos |-> p + bytes_read ]

\* mmap(NULL, length, PROT_READ, MAP_SHARED, fd, offset): ENODEV for an
\* object that cannot be mapped, EINVAL for an offset that is not a multiple
\* of the page size; a range behind the end of a regular file is mapped all
\* the same
mmap(f, length, offset) ==
  IF ~ f.mappable
    THEN [ addr |-> "MAP_FAILED", errno |-> ENODEV ]
  ELSE IF offset < 0 \/ offset % PageSize # 0
    THEN [ addr |-> "MAP_FAILED", errno |-> EINVAL ]
  ELSE [ addr |-> "map", errno |-> 0 ]

\* mutant: the result of mmap() is not compared with MAP_FAILED
loc_database_read_as_section_v0_unchecked(b, d, f, as_offset, as_length) ==
  LET m == mmap(f, as_length, as_offset)
      count == ToSizeT(b, as_length \div AsRecordSize)
  IN  IF as_length > 0
        THEN [ r |-> 0, db |-> [ d EXCEPT !.as_v0 = m.addr, !.as_count = count ],
               mapping |-> IF m.addr = "MAP_FAILED" THEN NoMapping
                           ELSE [ state |-> "mapped", offset |-> as_offset,
                                  length |-> as_length ] ]
      ELSE [ r |-> 0, db |-> [ d EXCEPT !.as_count = count ], mapping |-> NoMapping ]

loc_database_read_as_section_v0(b, d, f, as_offset, as_length) ==
  LET m == mmap(f, as_length, as_offset)
      count == ToSizeT(b, as_length \div AsRecordSize)
  IN  IF as_length > 0 /\ m.addr = "MAP_FAILED"
        THEN [ r |-> -m.errno, db |-> [ d EXCEPT !.as_v0 = m.addr ],
               mapping |-> NoMapping ]
      ELSE IF as_length > 0
        THEN [ r |-> 0, db |-> [ d EXCEPT !.as_v0 = m.addr, !.as_count = count ],
               mapping |-> [ state |-> "mapped", offset |-> as_offset,
                             length |-> as_length ] ]
      ELSE [ r |-> 0, db |-> [ d EXCEPT !.as_count = count ], mapping |-> NoMapping ]

loc_database_read_header_v0(b, d, f, p) ==
  LET size == fread(f, p, HeaderSize)
      d1 == [ d EXCEPT !.created_at  = be64toh(f.created_at),
                       !.vendor      = ToOffT(b, ntohl(f.vendor)),
                       !.description = ToOffT(b, ntohl(f.description)) ]
      pool_offset == ToOffT(b, ntohl(f.pool_offset))
      pool_length == ToSizeT(b, ntohl(f.pool_length))
      pr == loc_stringpool_read(f, pool_offset, pool_length)
      d2 == [ d1 EXCEPT !.pool = "pool" ]
      as_offset == ToOffT(b, ntohl(f.as_offset))
      as_length == ToSizeT(b, ntohl(f.as_length))
      ar == loc_database_read_as_section_v0(b, d2, f, as_offset, as_length)
  IN  IF size < HeaderSize
        THEN [ r |-> -ENOMSG, db |-> d, pos |-> p + size, pool |-> NoPool,
               mapping |-> NoMapping ]
      ELSE IF pr.r # 0
        THEN [ r |-> pr.r, db |-> d2, pos |-> p + size,
               pool |-> [ state |-> "live", data |-> << >> ],
               mapping |-> NoMapping ]
      ELSE [ r |-> ar.r, db |-> ar.db, pos |-> p + size,
             pool |-> [ state |-> "live", data |-> pr.data ],
             mapping |-> ar.mapping ]

loc_database_read_header(b, d, f, p) ==
  IF d.version = 0
    THEN loc_database_read_header_v0(b, d, f, p)
    ELSE [ r |-> 1, db |-> d, pos |-> p, pool |-> NoPool, mapping |-> NoMapping ]

\* mutant: the database keeps the caller's FILE* instead of a duplicate
copy_file_pointer_shared(dupOk) == "f"

\* dup() and fdopen(): a second FILE* on the same open file, NULL on failure
copy_file_pointer(dupOk) == IF dupOk THEN "dup" ELSE NULL

\* fclose() of the stream a FILE* points to
fclose(st, fp) == IF fp = NULL THEN st ELSE [ st EXCEPT ![fp] = "closed" ]

\* what loc_database_free leaves of the database and of what it owns
loc_database_free(d, pl, mp, st, cr) ==
  [ db      |-> [ d EXCEPT !.alloc = "freed" ],
    mapping |-> IF d.as_v0 = "map" THEN [ mp EXCEPT !.state = "unmapped" ] ELSE mp,
    pool    |-> IF d.pool # NULL THEN [ pl EXCEPT !.state = "released" ] ELSE pl,
    streams |-> fclose(st, d.file),
    ctxRefs |-> cr - 1 ]

\* mutant: the object is freed one reference early
UnrefFrees_early(refcount) == ~ (refcount - 1 > 1)

\* loc_database_unref: whether the decremented count makes it free the object
UnrefFrees(refcount) == ~ (refcount - 1 > 0)

\* loc_database_new(ctx, database, f): everything the call changes.  allocOk
\* and dupOk are the outcomes of calloc() and of dup()/fdopen(), errno the
\* error number the failing dup()/fdopen() left.  A failed magic or header
\* read returns without releasing db; the FAIL path releases it through
\* loc_database_unref (loc_stringpool_unref of the NULL pool does nothing).
Open(b, f, p, st, cr, allocOk, dupOk, errno) ==
  LET d0 == [ Calloc EXCEPT !.ctx = "ctx", !.refcount = 1,
                            !.file = copy_file_pointer(dupOk) ]
      st0 == IF d0.file = NULL THEN st ELSE [ st EXCEPT ![d0.file] = "open" ]
      fr == loc_database_free([ d0 EXCEPT !.refcount = 0 ], NoPool, NoMapping,
                              st0, cr + 1)
      mg == loc_database_read_magic(d0, f, p)
      hd == loc_database_read_header(b, mg.db, f, mg.pos)
      none == [ r |-> -ENOMEM, db |-> NoDb, database |-> "unassigned", pos |-> p,
                pool |-> NoPool, mapping |-> NoMapping, streams |-> st,
                ctxRefs |-> cr, handles |-> 0, freed |-> 0 ]
  IN  IF ~ allocOk THEN none
      ELSE IF d0.file = NULL
        THEN [ none EXCEPT !.r = -errno, !.db = fr.db, !.streams = fr.streams,
                           !.ctxRefs = fr.ctxRefs, !.freed = 1 ]
      ELSE IF mg.r # 0
        THEN [ none EXCEPT !.r = mg.r, !.db = mg.db, !.pos = mg.pos,
                           !.streams = st0, !.ctxRefs = cr + 1 ]
      ELSE IF hd.r # 0
        THEN [ none EXCEPT !.r = hd.r, !.db = hd.db, !.pos = hd.pos,
                           !.pool = hd.pool, !.mapping = hd.mapping,
                           !.streams = st0, !.ctxRefs = cr + 1 ]
      ELSE [ r |-> 0, db |-> hd.db, database |-> "db", pos |-> hd.pos,
             pool |-> hd.pool, mapping |-> hd.mapping, streams |-> st0,
             ctxRefs |-> cr + 1, handles |-> 1, freed |-> 0 ]

loc_database_new ==
  /\ ~ ret.called
  /\ streams.f = "open"
  /\ \E allocOk \in BOOLEAN, dupOk \in BOOLEAN, errno \in { EBADF, ENOMEM } :
       LET o == Open(build, file, pos, streams, ctxRefs, allocOk, dupOk, errno)
       IN  /\ ret' = [ called |-> TRUE, r |-> o.r ]
           /\ db' = o.db
           /\ database' = o.database
           /\ pos' = o.pos
           /\ pool' = o.pool
           /\ mapping' = o.mapping
           /\ streams' = o.streams
           /\ ctxRefs' = o.ctxRefs
           /\ handles' = o.handles
           /\ freed' = o.freed
  /\ UNCHANGED << side, build, file, written, asHandles, res, fault >>

\* loc_writer_write(writer, f, LOC_DATABASE_VERSION_UNSET) on the caller's f:
\* the header is written last, the position is left behind it
loc_writer_write ==
  /\ ~ ret.called
  /\ ~ written.done
  /\ streams.f = "open"
  /\ \E vendor \in Strings, description \in Strings :
       /\ file' = WriterImage(vendor, description)
       /\ written' = [ done |-> TRUE, vendor |-> vendor,
                       description |-> description ]
  /\ pos' = MagicSize + HeaderV1Size
  /\ UNCHANGED << side, build, streams, db, database, ret, pool, mapping, ctxRefs,
                  handles, freed, asHandles, res, fault >>

\* the caller opens the written file anew: fopen(path, "r")
CallerFopen ==
  /\ ~ ret.called
  /\ written.done
  /\ pos # 0
  /\ pos' = 0
  /\ UNCHANGED << side, build, file, written, streams, db, database, ret, pool,
                  mapping, ctxRefs, handles, freed, asHandles, res, fault >>

\* the caller holds a reference and the process is running
CanCall == database = "db" /\ handles > 0 /\ ~ fault

\* the caller closes its own FILE* (attempt_to_open, Database_init, main)
CallerFclose ==
  /\ ret.called
  /\ ~ fault
  /\ streams.f = "open"
  /\ streams' = fclose(streams, "f")
  /\ UNCHANGED << side, build, file, pos, written, db, database, ret, pool, mapping,
                  ctxRefs, handles, freed, asHandles, res, fault >>

\* loc_database_ref through a reference the caller holds
loc_database_ref ==
  /\ CanCall
  /\ handles < MaxRefs
  /\ db' = [ db EXCEPT !.refcount = db.refcount + 1 ]
  /\ handles' = handles + 1
  /\ UNCHANGED << side, build, file, pos, written, streams, database, ret, pool,
                  mapping, ctxRefs, freed, asHandles, res, fault >>

\* loc_database_unref of a reference the caller holds
loc_database_unref ==
  /\ CanCall
  /\ LET d == [ db EXCEPT !.refcount = db.refcount - 1 ]
         fr == loc_database_free(d, pool, mapping, streams, ctxRefs)
     IN  IF UnrefFrees(db.refcount)
           THEN /\ db' = fr.db
                /\ mapping' = fr.mapping
                /\ pool' = fr.pool
                /\ streams' = fr.streams
                /\ ctxRefs' = fr.ctxRefs
                /\ freed' = freed + 1
           ELSE /\ db' = d
                /\ UNCHANGED << mapping, pool, streams, ctxRefs, freed >>
  /\ handles' = handles - 1
  /\ UNCHANGED << side, build, file, pos, written, database, ret, asHandles, res, fault >>

(***************************************************************************)
(* Readers (database.c).                                                   *)
(***************************************************************************)
\* what a read of record i of the mapping delivers: the record of the file,
\* zeroes behind the end of the file up to the end of its last page, SIGBUS
\* behind that page
PageEnd(size) == ((size + PageSize - 1) \div PageSize) * PageSize

MappedRecord(f, mp, i) ==
  LET end == mp.offset + AsRecordSize * (i + 1)
  IN  IF end <= f.size THEN [ ok |-> TRUE, number |-> f.as[i + 1] ]
      ELSE IF end <= PageEnd(f.size) THEN [ ok |-> TRUE, number |-> 0 ]
      ELSE [ ok |-> FALSE, number |-> 0 ]

\* loc_as_new_from_database_v0 (as.c): a new AS object with the number of the
\* record; on failure *as is left as it was
loc_as_new_from_database_v0(f, mp, as, i, allocOk) ==
  LET rec == MappedRecord(f, mp, i)
  IN  IF ~ allocOk THEN [ r |-> -ENOMEM, as |-> as, fault |-> FALSE ]
      ELSE IF ~ rec.ok THEN [ r |-> 0, as |-> as, fault |-> TRUE ]
      ELSE [ r |-> 0, as |-> [ state |-> "live", number |-> rec.number ],
             fault |-> FALSE ]

loc_database_fetch_as(b, d, f, mp, as, i, allocOk) ==
  IF ToSizeT(b, i) >= d.as_count
    THEN [ r |-> -EINVAL, as |-> as, fault |-> FALSE ]
  ELSE IF d.version # 0
    THEN [ r |-> -1, as |-> as, fault |-> FALSE ]
  ELSE loc_as_new_from_database_v0(f, mp, as, i, allocOk)

\* the loop of loc_database_get_as; st carries *as and the counts of objects
\* fetched and released so far, failAt is the fetch whose allocation fails
RECURSIVE Search(_, _, _, _, _, _, _, _, _)
Search(b, d, f, mp, number, lo, hi, st, failAt) ==
  IF ~ (lo <= hi)
    THEN [ st EXCEPT !.returned = TRUE, !.r = 0,
                     !.as = [ state |-> "NULL", number |-> 0 ] ]
  ELSE
    LET i == ToOffT(b, (lo + hi) \div 2)
        fr == loc_database_fetch_as(b, d, f, mp, st.as, i, st.fetched + 1 # failAt)
        st1 == [ st EXCEPT !.as = fr.as, !.fetched = st.fetched + 1 ]
        st2 == [ st1 EXCEPT !.as.state = "released", !.released = st.released + 1 ]
    IN  IF fr.fault THEN st
        ELSE IF fr.r # 0 THEN [ st EXCEPT !.returned = TRUE, !.r = fr.r ]
        ELSE IF fr.as.number = number THEN [ st1 EXCEPT !.returned = TRUE, !.r = 0 ]
        ELSE IF fr.as.number < number
          THEN Search(b, d, f, mp, number, ToOffT(b, i + 1), hi, st2, failAt)
          ELSE Search(b, d, f, mp, number, lo, ToOffT(b, i - 1), st2, failAt)

GetAs(b, d, f, mp, number, failAt) ==
  Search(b, d, f, mp, number, 0, ToOffT(b, ToSizeT(b, d.as_count - 1)),
         [ NoRes EXCEPT !.op = "get_as", !.number = number ], failAt)

loc_database_get_as ==
  /\ CanCall
  /\ asHandles < MaxAsHandles
  /\ \E number \in 0..(MaxAsn + 1), failAt \in 0..MaxAs :
       /\ res' = GetAs(build, db, file, mapping, number, failAt)
       /\ fault' = ~ res'.returned
       /\ asHandles' = IF res'.returned /\ res'.r = 0 /\ res'.as.state = "live"
                         THEN asHandles + 1 ELSE asHandles
  /\ UNCHANGED << side, build, file, pos, written, streams, db, database, ret, pool,
                  mapping, ctxRefs, handles, freed >>

\* the caller releases an AS handle it got (Database_get_as of the bindings)
loc_as_unref ==
  /\ ~ fault
  /\ asHandles > 0
  /\ asHandles' = asHandles - 1
  /\ UNCHANGED << side, build, file, pos, written, streams, db, database, ret, pool,
                  mapping, ctxRefs, handles, freed, res, fault >>

\* mutant: a getter that counts its calls in the database object
Getter_counting(op, str, num) ==
  /\ CanCall
  /\ res' = [ NoRes EXCEPT !.op = op, !.returned = TRUE, !.str = str, !.number = num ]
  /\ db' = [ db EXCEPT !.created_at = db.created_at + 1 ]
  /\ UNCHANGED << side, build, file, pos, written, streams, database, ret, pool,
                  mapping, ctxRefs, handles, freed, asHandles, fault >>

\* the four getters: one read of a field of the database
Getter(op, str, num) ==
  /\ CanCall
  /\ res' = [ NoRes EXCEPT !.op = op, !.returned = TRUE, !.str = str, !.number = num ]
  /\ UNCHANGED << side, build, file, pos, written, streams, db, database, ret, pool,
                  mapping, ctxRefs, handles, freed, asHandles, fault >>

loc_database_created_at == Getter("created_at", NullStr, db.created_at)

loc_database_get_vendor ==
  Getter("get_vendor", loc_stringpool_get(pool, db.vendor), 0)

loc_database_get_description ==
  Getter("get_description", loc_stringpool_get(pool, db.description), 0)

loc_database_count_as == Getter("count_as", NullStr, db.as_count)

Next ==
  \/ loc_writer_write
  \/ CallerFopen
  \/ loc_database_new
  \/ CallerFclose
  \/ loc_database_ref
  \/ loc_database_unref
  \/ loc_database_get_as
  \/ loc_as_unref
  \/ loc_database_created_at
  \/ loc_database_get_vendor
  \/ loc_database_get_description
  \/ loc_database_count_as

Spec == Init /\ [][Next]_vars

(***************************************************************************)
(* The address helpers applied to the sample addresses.  The database      *)
(* takes no part: it stays as it is before any open.                       *)
(***************************************************************************)
InitAddr ==
  /\ build = [ sizeBits |-> WideBits, offBits |-> WideBits ]
  /\ file = Stub(0, "", 0)
  /\ Idle
  /\ calc \in { [ NoCalc EXCEPT !.a = a ] : a \in Addresses }
  /\ thr = NoThreads
  /\ bounds = NoBounds
  /\ self = NoSelf
  /\ call = NoCall
  /\ it = NoIterator

CallSetBit ==
  /\ calc.op = "none"
  /\ \E i \in 0..(AddrBits - 1), val \in { 0, 1 } :
       calc' = [ calc EXCEPT !.op = "set_bit", !.i = i, !.val = val,
                             !.out = in6_addr_set_bit(calc.a, i, val) ]
  /\ UNCHANGED << libvars, mtvars, bindvars >>

CallPrefixToBitmask ==
  /\ calc.op = "none"
  /\ \E prefix \in 0..AddrBits :
       calc' = [ NoCalc EXCEPT !.op = "bitmask", !.prefix = prefix,
                               !.out = loc_prefix_to_bitmask(prefix) ]
  /\ UNCHANGED << libvars, mtvars, bindvars >>

CallAddressAnd ==
  /\ calc.op = "none"
  /\ \E prefix \in 0..AddrBits :
       calc' = [ calc EXCEPT !.op = "and", !.prefix = prefix,
                   !.out = loc_address_and(calc.a, loc_prefix_to_bitmask(prefix)) ]
  /\ UNCHANGED << libvars, mtvars, bindvars >>

CallAddressOr ==
  /\ calc.op = "none"
  /\ \E prefix \in 0..AddrBits :
       calc' = [ calc EXCEPT !.op = "or", !.prefix = prefix,
                   !.out = loc_address_or(calc.a, loc_prefix_to_bitmask(prefix)) ]
  /\ UNCHANGED << libvars, mtvars, bindvars >>

NextAddr ==
  \/ CallSetBit
  \/ CallPrefixToBitmask
  \/ CallAddressAnd
  \/ CallAddressOr

SpecAddr == InitAddr /\ [][NextAddr]_vars

(***************************************************************************)
(* Reader threads on one opened database.  A thread runs one call at a     *)
(* time; loc_database_get_as is split at its loop, one iteration a step,   *)
(* so that the iterations of different threads interleave.  The getters    *)
(* are a single read of a field.                                           *)
(***************************************************************************)
\* loc_database_new on a fresh FILE* with nothing failing
Opened(b, f) == Open(b, f, 0, [ f |-> "open", dup |-> "none" ], 1, TRUE, TRUE, 0)

\* the candidate files with a sorted AS table
SortedFiles == { f \in Files : Sorted(f.as) }

InitMT ==
  \E b \in Builds, f \in SortedFiles :
    LET o == Opened(b, f)
    IN  /\ o.r = 0
        /\ build = b
        /\ file = f
        /\ pos = o.pos
        /\ written = NoWriter
        /\ streams = o.streams
        /\ db = o.db
        /\ database = o.database
        /\ ret = [ called |-> TRUE, r |-> o.r ]
        /\ pool = o.pool
        /\ mapping = o.mapping
        /\ ctxRefs = o.ctxRefs
        /\ handles = o.handles
        /\ freed = o.freed
        /\ asHandles = 0
        /\ res = NoRes
        /\ fault = FALSE
        /\ calc = NoCalc
        /\ thr = NoThreads
        /\ bounds = NoBounds
        /\ self = NoSelf
        /\ call = NoCall
        /\ it = NoIterator

\* where the lo and hi of thread t's call live, were they static
BoundsSlot_static(t) == "t1"

\* where the lo and hi of thread t's call live: they are automatic
\* variables, every call has its own
BoundsSlot(t) == t

\* one pass through the loop of loc_database_get_as, from its condition to
\* the end of its body or to a return
SearchStep(b, d, f, mp, number, lo, hi, st) ==
  IF ~ (lo <= hi)
    THEN [ done |-> TRUE, fault |-> FALSE, lo |-> lo, hi |-> hi,
           st |-> [ st EXCEPT !.returned = TRUE, !.r = 0,
                              !.as = [ state |-> "NULL", number |-> 0 ] ] ]
  ELSE
    LET i == ToOffT(b, (lo + hi) \div 2)
        fr == loc_database_fetch_as(b, d, f, mp, st.as, i, TRUE)
        st1 == [ st EXCEPT !.as = fr.as, !.fetched = st.fetched + 1 ]
        st2 == [ st1 EXCEPT !.as.state = "released", !.released = st.released + 1 ]
        go == [ done |-> FALSE, fault |-> FALSE, lo |-> lo, hi |-> hi, st |-> st2 ]
    IN  IF fr.fault THEN [ go EXCEPT !.fault = TRUE, !.st = st ]
        ELSE IF fr.r # 0
          THEN [ go EXCEPT !.done = TRUE, !.st = [ st EXCEPT !.returned = TRUE, !.r = fr.r ] ]
        ELSE IF fr.as.number = number
          THEN [ go EXCEPT !.done = TRUE, !.st = [ st1 EXCEPT !.returned = TRUE, !.r = 0 ] ]
        ELSE IF fr.as.number < number
          THEN [ go EXCEPT !.lo = ToOffT(b, i + 1) ]
          ELSE [ go EXCEPT !.hi = ToOffT(b, i - 1) ]

\* thread t enters loc_database_get_as: lo = 0, hi = db->as_count - 1
ThreadCallsGetAs(t) ==
  /\ ~ fault
  /\ thr[t].pc = "idle"
  /\ \E number \in 0..(MaxAsn + 1) :
       thr' = [ thr EXCEPT ![t] =
                  [ IdleThread EXCEPT !.pc = "loop", !.op = "get_as", !.number = number,
                      !.st = [ NoRes EXCEPT !.op = "get_as", !.number = number ] ] ]
  /\ bounds' = [ bounds EXCEPT ![BoundsSlot(t)] =
                   [ lo |-> 0, hi |-> ToOffT(build, ToSizeT(build, db.as_count - 1)) ] ]
  /\ UNCHANGED << libvars, addrvars, bindvars >>

\* thread t runs one iteration of the loop, or leaves the function
ThreadSearches(t) ==
  /\ ~ fault
  /\ thr[t].pc = "loop"
  /\ LET s == BoundsSlot(t)
         n == SearchStep(build, db, file, mapping, thr[t].number,
                         bounds[s].lo, bounds[s].hi, thr[t].st)
         other == \E u \in Threads \ { t } : thr[u].pc = "loop"
     IN  /\ thr' = [ thr EXCEPT ![t].st = n.st,
                                ![t].raced = @ \/ other,
                                ![t].pc = IF n.fault THEN "fault"
                                          ELSE IF n.done THEN "done" ELSE "loop" ]
         /\ bounds' = [ bounds EXCEPT ![s] = [ lo |-> n.lo, hi |-> n.hi ] ]
         /\ fault' = n.fault
  /\ UNCHANGED << build, file, pos, written, streams, db, database, ret, pool,
                  mapping, ctxRefs, handles, freed, asHandles, res, addrvars,
                  bindvars >>

\* what a getter gives back
GetterResult(op) ==
  IF op = "created_at"
    THEN [ NoRes EXCEPT !.op = op, !.returned = TRUE, !.number = db.created_at ]
  ELSE IF op = "count_as"
    THEN [ NoRes EXCEPT !.op = op, !.returned = TRUE, !.number = db.as_count ]
  ELSE IF op = "get_vendor"
    THEN [ NoRes EXCEPT !.op = op, !.returned = TRUE,
                        !.str = loc_stringpool_get(pool, db.vendor) ]
  ELSE [ NoRes EXCEPT !.op = op, !.returned = TRUE,
                      !.str = loc_stringpool_get(pool, db.description) ]

ThreadGets(t, op) ==
  /\ ~ fault
  /\ thr[t].pc = "idle"
  /\ thr' = [ thr EXCEPT ![t] = [ IdleThread EXCEPT !.pc = "done", !.op = op,
                                                    !.st = GetterResult(op) ] ]
  /\ UNCHANGED << libvars, addrvars, bindvars, bounds >>

\* the thread takes the result and is free for its next call
ThreadReturns(t) ==
  /\ ~ fault
  /\ thr[t].pc = "done"
  /\ thr' = [ thr EXCEPT ![t] = IdleThread ]
  /\ UNCHANGED << libvars, addrvars, bindvars, bounds >>

NextMT ==
  \/ \E t \in Threads : ThreadCallsGetAs(t)
  \/ \E t \in Threads : ThreadSearches(t)
  \/ \E t \in Threads : ThreadGets(t, "created_at")
  \/ \E t \in Threads : ThreadGets(t, "get_vendor")
  \/ \E t \in Threads : ThreadGets(t, "get_description")
  \/ \E t \in Threads : ThreadGets(t, "count_as")
  \/ \E t \in Threads : ThreadReturns(t)

SpecMT == InitMT /\ [][NextMT]_vars

(***************************************************************************)
(* Threads that take and release references on one opened database.  Each  *)
(* thread starts with a reference of its own.  db->refcount++ and          *)
(* --db->refcount are a load and a store of a plain int: another thread    *)
(* can run between the two.                                                *)
(***************************************************************************)
InitRef ==
  \E b \in Builds, f \in SortedFiles :
    LET o == Opened(b, f)
    IN  /\ o.r = 0
        /\ build = b
        /\ file = f
        /\ pos = o.pos
        /\ written = NoWriter
        /\ streams = o.streams
        /\ db = [ o.db EXCEPT !.refcount = Cardinality(Threads) ]
        /\ database = o.database
        /\ ret = [ called |-> TRUE, r |-> o.r ]
        /\ pool = o.pool
        /\ mapping = o.mapping
        /\ ctxRefs = o.ctxRefs
        /\ handles = Cardinality(Threads)
        /\ freed = o.freed
        /\ asHandles = 0
        /\ res = NoRes
        /\ fault = FALSE
        /\ calc = NoCalc
        /\ thr = [ t \in Threads |-> [ IdleThread EXCEPT !.refs = 1 ] ]
        /\ bounds = NoBounds
        /\ self = NoSelf
        /\ call = NoCall
        /\ it = NoIterator

\* a thread enters loc_database_ref or loc_database_unref through a
\* reference it holds and loads db->refcount; the object may be gone
ThreadLoads(t, op) ==
  /\ ~ fault
  /\ thr[t].pc = "idle"
  /\ thr[t].refs >= 1
  /\ IF db.alloc = "live"
       THEN /\ thr' = [ thr EXCEPT ![t].pc = op, ![t].op = op,
                                   ![t].number = db.refcount ]
            /\ fault' = FALSE
       ELSE /\ fault' = TRUE
            /\ thr' = thr
  /\ UNCHANGED << build, file, pos, written, streams, db, database, ret, pool,
                  mapping, ctxRefs, handles, freed, asHandles, res, addrvars,
                  bindvars, bounds >>

ThreadRefLoads(t) ==
  /\ thr[t].refs < MaxRefs
  /\ db.refcount < MaxCount
  /\ ThreadLoads(t, "ref")

\* db->refcount++ is completed: the loaded value plus one is stored
ThreadRefStores(t) ==
  /\ ~ fault
  /\ thr[t].pc = "ref"
  /\ IF db.alloc = "live"
       THEN /\ db' = [ db EXCEPT !.refcount = thr[t].number + 1 ]
            /\ thr' = [ thr EXCEPT ![t].pc = "idle", ![t].refs = @ + 1 ]
            /\ handles' = handles + 1
            /\ fault' = FALSE
       ELSE /\ fault' = TRUE
            /\ UNCHANGED << db, thr, handles >>
  /\ UNCHANGED << build, file, pos, written, streams, database, ret, pool, mapping,
                  ctxRefs, freed, asHandles, res, addrvars, bindvars, bounds >>

ThreadUnrefLoads(t) ==
  /\ thr[t].refs >= 1
  /\ ThreadLoads(t, "unref")

\* --db->refcount is completed: the loaded value minus one is stored and
\* compared with 0; loc_database_free follows if it is not above
ThreadUnrefStores(t) ==
  /\ ~ fault
  /\ thr[t].pc = "unref"
  /\ IF db.alloc = "live"
       THEN LET d == [ db EXCEPT !.refcount = thr[t].number - 1 ]
                fr == loc_database_free(d, pool, mapping, streams, ctxRefs)
            IN  /\ IF UnrefFrees(thr[t].number)
                     THEN /\ db' = fr.db
                          /\ mapping' = fr.mapping
                          /\ pool' = fr.pool
                          /\ streams' = fr.streams
                          /\ ctxRefs' = fr.ctxRefs
                          /\ freed' = freed + 1
                     ELSE /\ db' = d
                          /\ UNCHANGED << mapping, pool, streams, ctxRefs, freed >>
                /\ thr' = [ thr EXCEPT ![t].pc = "idle", ![t].refs = @ - 1 ]
                /\ handles' = handles - 1
                /\ fault' = FALSE
       ELSE /\ fault' = TRUE
            /\ UNCHANGED << db, mapping, pool, streams, ctxRefs, freed, thr, handles >>
  /\ UNCHANGED << build, file, pos, written, database, ret, asHandles, res,
                  addrvars, bindvars, bounds >>

NextRef ==
  \/ \E t \in Threads : ThreadRefLoads(t)
  \/ \E t \in Threads : ThreadRefStores(t)
  \/ \E t \in Threads : ThreadUnrefLoads(t)
  \/ \E t \in Threads : ThreadUnrefStores(t)

SpecRef == InitRef /\ [][NextRef]_vars

(***************************************************************************)
(* The language bindings: the Lua Database class (lua/database.c) and the  *)
(* Python Database type (python/database.c), each with one Database object *)
(* on the library above.                                                   *)
(***************************************************************************)
\* the files a binding is asked to open: an empty table, a table without
\* AS 2, and /dev/null
BindFiles ==
  { WellFormed(0, 1, 3, GoodPool, as) : as \in { << >>, << 1, 3 >> } }
  \cup { Stub(0, "", 0) }

InitBind ==
  /\ build \in Builds
  /\ file \in BindFiles
  /\ pos = 0
  /\ written = NoWriter
  /\ streams = [ f |-> "none", dup |-> "none" ]
  /\ db = NoDb
  /\ database = "unassigned"
  /\ ret = [ called |-> FALSE, r |-> 0 ]
  /\ pool = NoPool
  /\ mapping = NoMapping
  /\ ctxRefs = 1
  /\ handles = 0
  /\ freed = 0
  /\ asHandles = 0
  /\ res = NoRes
  /\ fault = FALSE
  /\ calc = NoCalc
  /\ thr = NoThreads
  /\ bounds = NoBounds
  /\ self \in { [ NoSelf EXCEPT !.lang = l ] : l \in { "lua", "python" } }
  /\ call = NoCall
  /\ it = NoIterator

\* f = fopen(path, "r"); r = loc_database_new(ctx, &self->db, f); fclose(f);
\* the error exits leave self->db as it was, which is dbBefore
OpenFromPath(dbBefore) ==
  \E fopenOk \in BOOLEAN :
    LET o == Open(build, file, 0, [ f |-> "open", dup |-> "none" ], ctxRefs,
                  TRUE, TRUE, 0)
    IN  IF ~ fopenOk
          THEN /\ self' = [ self EXCEPT !.state = "failed", !.db = dbBefore ]
               /\ call' = [ NoCall EXCEPT !.op = "open", !.result = "error" ]
               /\ UNCHANGED << pos, streams, db, database, ret, pool, mapping,
                               ctxRefs, handles, freed >>
          ELSE /\ ret' = [ called |-> TRUE, r |-> o.r ]
               /\ db' = o.db
               /\ database' = o.database
               /\ pos' = o.pos
               /\ pool' = o.pool
               /\ mapping' = o.mapping
               /\ streams' = fclose(o.streams, "f")
               /\ ctxRefs' = o.ctxRefs
               /\ handles' = o.handles
               /\ freed' = o.freed
               /\ self' = IF o.r = 0
                            THEN [ self EXCEPT !.state = "open", !.db = "db" ]
                            ELSE [ self EXCEPT !.state = "failed", !.db = dbBefore ]
               /\ call' = [ NoCall EXCEPT !.op = "open",
                              !.result = IF o.r = 0 THEN "object" ELSE "error" ]

\* Database_open of Lua: lua_newuserdata leaves self->db not initialised
LuaDatabase_open ==
  /\ self.lang = "lua"
  /\ self.state = "none"
  /\ OpenFromPath("uninit")
  /\ UNCHANGED << build, file, written, asHandles, res, fault, addrvars, mtvars, it >>

\* Database_new of Python: tp_alloc hands out zeroed memory
PyDatabase_new ==
  /\ self.lang = "python"
  /\ self.state = "none"
  /\ self' = [ self EXCEPT !.state = "new", !.db = "NULL" ]
  /\ UNCHANGED << libvars, addrvars, mtvars, call, it >>

PyDatabase_init ==
  /\ self.lang = "python"
  /\ self.state = "new"
  /\ OpenFromPath(self.db)
  /\ UNCHANGED << build, file, written, asHandles, res, fault, addrvars, mtvars, it >>

\* a method can be called on the object that open gave back
CanCallMethod(lang) ==
  /\ ~ fault
  /\ self.lang = lang
  /\ self.state = "open"

\* what comes of handing a NULL object to the constructor of the wrapper
\* and to the unref function: they read through the pointer
NullUseOutcomes(state) ==
  IF state = "live" THEN { "object" } ELSE { "object", "crash" }

\* Database_get_as of Lua: create_as and loc_as_unref follow every r = 0
LuaDatabase_get_as ==
  /\ CanCallMethod("lua")
  /\ \E number \in 0..(MaxAsn + 1) :
       LET g == GetAs(build, db, file, mapping, number, 0)
           c == [ NoCall EXCEPT !.op = "get_as", !.number = number ]
       IN  /\ g.returned
           /\ res' = g
           /\ IF g.r # 0
                THEN /\ call' = [ c EXCEPT !.result = "nil" ]
                     /\ fault' = fault
                ELSE \E outcome \in NullUseOutcomes(g.as.state) :
                       /\ call' = [ c EXCEPT !.result = outcome,
                                             !.built = g.as.state,
                                             !.released = g.as.state ]
                       /\ fault' = (outcome = "crash")
  /\ UNCHANGED << build, file, pos, written, streams, db, database, ret, pool,
                  mapping, ctxRefs, handles, freed, asHandles, addrvars, mtvars,
                  self, it >>

\* Database_get_as of Python: the object is built only if (as)
PyDatabase_get_as ==
  /\ CanCallMethod("python")
  /\ \E number \in 0..(MaxAsn + 1) :
       LET g == GetAs(build, db, file, mapping, number, 0)
           c == [ NoCall EXCEPT !.op = "get_as", !.number = number ]
       IN  /\ g.returned
           /\ res' = g
           /\ call' = IF g.r # 0 THEN [ c EXCEPT !.result = "error" ]
                      ELSE IF g.as.state # "NULL"
                        THEN [ c EXCEPT !.result = "object", !.built = g.as.state,
                                        !.released = g.as.state ]
                      ELSE [ c EXCEPT !.result = "None" ]
  /\ UNCHANGED << build, file, pos, written, streams, db, database, ret, pool,
                  mapping, ctxRefs, handles, freed, asHandles, fault, addrvars,
                  mtvars, self, it >>

\* the two ways the library reports that no network covers the address
Conventions == { "errno", "null" }

\* loc_database_lookup_from_string: an address that does not parse, one a
\* network covers, one no network covers
loc_database_lookup_from_string(address, convention) ==
  IF address = "malformed"
    THEN [ r |-> -1, errno |-> EINVAL, network |-> "NULL" ]
  ELSE IF address = "covered"
    THEN [ r |-> 0, errno |-> 0, network |-> "live" ]
  ELSE IF convention = "errno"
    THEN [ r |-> 1, errno |-> ENOENT, network |-> "NULL" ]
  ELSE [ r |-> 0, errno |-> 0, network |-> "NULL" ]

\* Database_lookup of Lua
LuaDatabase_lookup ==
  /\ CanCallMethod("lua")
  /\ \E address \in { "malformed", "covered", "uncovered" }, convention \in Conventions :
       LET l == loc_database_lookup_from_string(address, convention)
           c == [ NoCall EXCEPT !.op = "lookup", !.address = address ]
       IN  IF l.r # 0
             THEN /\ call' = [ c EXCEPT !.result = IF l.errno = ENOENT
                                                     THEN "nil" ELSE "error" ]
                  /\ fault' = fault
             ELSE \E outcome \in NullUseOutcomes(l.network) :
                    /\ call' = [ c EXCEPT !.result = outcome, !.built = l.network,
                                          !.released = l.network ]
                    /\ fault' = (outcome = "crash")
  /\ UNCHANGED << build, file, pos, written, streams, db, database, ret, pool,
                  mapping, ctxRefs, handles, freed, asHandles, res, addrvars,
                  mtvars, self, it >>

\* loc_database_enumerator_new: the enumerator holds a count on the database
loc_database_enumerator_new(d, ok, count) ==
  IF ok
    THEN [ r |-> 0, db |-> [ d EXCEPT !.refcount = d.refcount + 1 ],
           it |-> [ iter |-> "held", enum |-> "live", count |-> count, pos |-> 0 ] ]
    ELSE [ r |-> -1, db |-> d, it |-> NoIterator ]

\* Database_list_networks of Lua: the enumerator becomes a light userdata
\* upvalue of the closure that is the iterator
LuaDatabase_list_networks ==
  /\ CanCallMethod("lua")
  /\ it.iter = "none"
  /\ \E ok \in BOOLEAN, count \in 0..MaxNetworks :
       LET e == loc_database_enumerator_new(db, ok, count)
       IN  /\ db' = e.db
           /\ it' = e.it
           /\ handles' = IF e.r = 0 THEN handles + 1 ELSE handles
           /\ call' = [ NoCall EXCEPT !.op = "list_networks",
                          !.result = IF e.r = 0 THEN "object" ELSE "error" ]
  /\ UNCHANGED << build, file, pos, written, streams, database, ret, pool, mapping,
                  ctxRefs, freed, asHandles, res, fault, addrvars, mtvars, self >>

\* loc_database_enumerator_next_network: the next network, NULL behind the
\* last one
loc_database_enumerator_next_network(e, ok) ==
  IF ~ ok THEN [ r |-> -1, network |-> "NULL", it |-> e ]
  ELSE IF e.pos < e.count
    THEN [ r |-> 0, network |-> "live", it |-> [ e EXCEPT !.pos = e.pos + 1 ] ]
  ELSE [ r |-> 0, network |-> "NULL", it |-> e ]

\* Database_next_network of Lua: the iterator is called
LuaDatabase_next_network ==
  /\ ~ fault
  /\ self.lang = "lua"
  /\ it.iter = "held"
  /\ \E ok \in BOOLEAN :
       LET n == loc_database_enumerator_next_network(it, ok)
           c == [ NoCall EXCEPT !.op = "next_network" ]
       IN  /\ it' = n.it
           /\ call' = IF n.r # 0 THEN [ c EXCEPT !.result = "error" ]
                      ELSE IF n.network = "NULL" THEN [ c EXCEPT !.result = "nil" ]
                      ELSE [ c EXCEPT !.result = "object", !.built = n.network,
                                      !.released = n.network ]
  /\ UNCHANGED << libvars, addrvars, mtvars, self >>

\* the iterator is dropped and collected: a closure and a light userdata
\* have no finalizer, nothing of the binding runs
LuaIteratorCollected ==
  /\ ~ fault
  /\ self.lang = "lua"
  /\ it.iter = "held"
  /\ it' = [ it EXCEPT !.iter = "dropped" ]
  /\ UNCHANGED << libvars, addrvars, mtvars, self, call >>

\* loc_database_unref(self->db) of a binding that holds a reference
UnrefBySelf ==
  LET d == [ db EXCEPT !.refcount = db.refcount - 1 ]
      fr == loc_database_free(d, pool, mapping, streams, ctxRefs)
  IN  /\ IF UnrefFrees(db.refcount)
           THEN /\ db' = fr.db
                /\ mapping' = fr.mapping
                /\ pool' = fr.pool
                /\ streams' = fr.streams
                /\ ctxRefs' = fr.ctxRefs
                /\ freed' = freed + 1
           ELSE /\ db' = d
                /\ UNCHANGED << mapping, pool, streams, ctxRefs, freed >>
      /\ handles' = handles - 1
      /\ fault' = fault

\* Database_gc of Lua, which a script can also call again on an object it
\* has run on.  A pointer that was never initialised reads as NULL or as
\* anything else; loc_database_unref of anything else is a wild access
LuaDatabase_gc ==
  /\ ~ fault
  /\ self.lang = "lua"
  /\ self.state \in { "open", "failed", "collected" }
  /\ self' = [ self EXCEPT !.state = "collected", !.db = "NULL" ]
  /\ IF self.db = "db"
       THEN UnrefBySelf
       ELSE /\ \E garbage \in BOOLEAN : fault' = (self.db = "uninit" /\ garbage)
            /\ UNCHANGED << db, mapping, pool, streams, ctxRefs, freed, handles >>
  /\ UNCHANGED << build, file, pos, written, database, ret, asHandles, res,
                  addrvars, mtvars, call, it >>

\* Database_dealloc of Python
PyDatabase_dealloc ==
  /\ ~ fault
  /\ self.lang = "python"
  /\ self.state \in { "new", "open", "failed" }
  /\ self' = [ self EXCEPT !.state = "collected" ]
  /\ IF self.db = "db"
       THEN UnrefBySelf
       ELSE UNCHANGED << db, mapping, pool, streams, ctxRefs, freed, handles, fault >>
  /\ UNCHANGED << build, file, pos, written, database, ret, asHandles, res,
                  addrvars, mtvars, call, it >>

NextBind ==
  \/ LuaDatabase_open
  \/ PyDatabase_new
  \/ PyDatabase_init
  \/ LuaDatabase_get_as
  \/ PyDatabase_get_as
  \/ LuaDatabase_lookup
  \/ LuaDatabase_list_networks
  \/ LuaDatabase_next_network
  \/ LuaIteratorCollected
  \/ LuaDatabase_gc
  \/ PyDatabase_dealloc

SpecBind == InitBind /\ [][NextBind]_vars

(***************************************************************************)
(* Properties.                                                             *)
(***************************************************************************)
\* the declared AS records all lie inside the file
TableInFile ==
  \A i \in 1..db.as_count : mapping.offset + AsRecordSize * i <= file.size

\* numbers of the AS table the opened database reads through its mapping
Table == [ i \in 1..db.as_count |-> MappedRecord(file, mapping, i - 1).number ]

InTable(n) == \E i \in 1..db.as_count : Table[i] = n

\* a get_as call of the caller has ended without an allocation failure
GetAsDone == res.op = "get_as" /\ ~ (res.returned /\ res.r = -ENOMEM)

\* C1: on an opened database whose AS table is sorted strictly ascending,
\* loc_database_get_as(n) returns 0 with the AS of number n when the table
\* has it and returns 0 with *as = NULL when it has not.
C1_GetAsFindsRecord ==
  (GetAsDone /\ TableInFile /\ Sorted(Table)) =>
    /\ res.returned
    /\ res.r = 0
    /\ InTable(res.number) => res.as = [ state |-> "live", number |-> res.number ]
    /\ ~ InTable(res.number) => res.as.state = "NULL"

\* C1, as far as the code goes: the same, for a table that is not empty or a
\* build whose off_t is not wider than its size_t.
C1_GetAsFindsRecordNonEmpty ==
  (db.as_count > 0 \/ build.offBits = build.sizeBits) => C1_GetAsFindsRecord

\* what loc_database_new was given is a well-formed version 0 database
HasHeader(f) == f.size >= DataOffset /\ f.magic = MAGIC

PoolInFile(f) == ntohl(f.pool_offset) + ntohl(f.pool_length) <= f.size

AsInFile(f) == ntohl(f.as_offset) + ntohl(f.as_length) <= f.size

WellFormedFile(f) ==
  HasHeader(f) /\ ntohs(f.version) = 0 /\ PoolInFile(f) /\ AsInFile(f)

\* C2: for a file that is empty, all zeroes or otherwise not a well-formed
\* database, loc_database_new returns non-zero and touches no invalid memory.
C2_MalformedRejected ==
  (ret.called /\ ~ WellFormedFile(file)) => (ret.r # 0 /\ ~ fault)

\* C3: loc_database_new accepts a file with correct magic only when its
\* version field is 1.
C3_OnlyVersionOneAccepted ==
  (ret.called /\ ret.r = 0) => ntohs(file.version) = 1

\* return values of loc_database_new for a file that is too short for the
\* magic or does not start with it: the NotADatabase kind
NotADatabaseCodes ==
  { loc_database_read_magic(Calloc, f, 0).r :
      f \in { g \in Files : g.size < MagicSize \/ g.magic # MAGIC } }

\* loc_database_new got its object and its stream, read the magic at the
\* start of the file and found a version it does not know
UnknownVersion ==
  /\ ret.called
  /\ db.alloc = "live"
  /\ db.file # NULL
  /\ ~ written.done
  /\ file.size >= MagicSize
  /\ file.magic = MAGIC
  /\ ntohs(file.version) > 1

\* C4: the return value identifies the cause: too short and wrong magic are
\* one kind, an unknown version is a kind the caller can tell from it.
C4_VersionErrorDistinct ==
  UnknownVersion => ret.r \notin NotADatabaseCodes

\* C5: in an opened database the pool and the AS section lie inside the
\* file and do not overlap.
C5_SectionsInsideFile ==
  (ret.called /\ ret.r = 0) =>
    /\ PoolInFile(file)
    /\ AsInFile(file)
    /\ \/ ntohl(file.as_length) = 0
       \/ ntohl(file.pool_length) = 0
       \/ ntohl(file.pool_offset) + ntohl(file.pool_length) <= ntohl(file.as_offset)
       \/ ntohl(file.as_offset) + ntohl(file.as_length) <= ntohl(file.pool_offset)

\* every field loc_database_new sets has its value
FullyInitialised ==
  /\ db.ctx = "ctx"
  /\ db.file # NULL
  /\ db.pool # NULL
  /\ db.as_v0 # "MAP_FAILED"
  /\ db.as_count > 0 => db.as_v0 = "map"
  /\ db.alloc = "live" =>
       /\ db.refcount >= 1
       /\ streams[db.file] = "open"
       /\ pool.state = "live"
       /\ db.as_v0 = "map" => mapping.state = "mapped"

\* C6: loc_database_new returns 0 exactly when it has stored a fully
\* initialised database in *database; on every failure it returns non-zero
\* and leaves *database unassigned.
C6_ZeroIffHandleStored ==
  ret.called =>
    /\ ret.r = 0 <=> database = "db"
    /\ ret.r # 0 => database = "unassigned"
    /\ database = "db" => FullyInitialised

\* C6 witness: the open failed after the pool was created, nothing stored
C6_Witness ==
  ret.called /\ ret.r # 0 /\ db.pool # NULL /\ database = "unassigned"

\* C7: the database works on its own duplicate of the caller's FILE*; the
\* duplicate is open while the database lives, whatever the caller does with
\* its FILE*, and is closed by the teardown.
C7_OwnDuplicate ==
  database = "db" =>
    /\ db.file = "dup"
    /\ db.alloc = "live" => streams[db.file] = "open"
    /\ db.alloc = "freed" => streams[db.file] = "closed"

\* C7 witness: the caller has closed its FILE*, and a reader call on the
\* database has returned a result
C7_Witness ==
  /\ database = "db"
  /\ handles > 0
  /\ streams.f = "closed"
  /\ streams.dup = "open"
  /\ res.op = "get_as"
  /\ res.returned
  /\ res.as.state = "live"

\* C8: the teardown runs once, at the unref that takes the count from 1 to
\* 0, and never while a reference is held.
C8_TeardownOnceAtZero ==
  database = "db" =>
    /\ db.refcount = handles
    /\ freed = (IF handles = 0 THEN 1 ELSE 0)
    /\ handles > 0 =>
         /\ db.alloc = "live"
         /\ mapping.state # "unmapped"
         /\ pool.state = "live"
         /\ streams.dup = "open"
    /\ handles = 0 =>
         /\ db.alloc = "freed"
         /\ mapping.state # "mapped"
         /\ pool.state = "released"
         /\ streams.dup = "closed"

\* C8 witness: the last reference is gone and the AS section is unmapped
C8_Witness ==
  database = "db" /\ handles = 0 /\ freed = 1 /\ mapping.state = "unmapped"

\* C9: while an AS handle from loc_database_get_as is live, the AS section
\* is not unmapped.
C9_AsHandleKeepsMapping ==
  asHandles > 0 => mapping.state # "unmapped"

\* C10: a database written with a vendor and a description opens, and
\* get_vendor and get_description give back these strings.
C10_HeaderStringsRoundTrip ==
  (written.done /\ ret.called /\ db.alloc = "live" /\ db.file # NULL) =>
    /\ ret.r = 0
    /\ loc_stringpool_get(pool, db.vendor) = Str(written.vendor)
    /\ loc_stringpool_get(pool, db.description) = Str(written.description)

\* loc_database_new got its object and its stream and was given a
\* well-formed version 0 database on an object that cannot be mapped
UnmappableOpened ==
  /\ ret.called
  /\ db.alloc = "live"
  /\ db.file # NULL
  /\ ~ written.done
  /\ WellFormedFile(file)
  /\ ~ file.mappable

\* C14: when mmap() of a section fails because the object is not mappable,
\* loc_database_new does not fail: the section is read into a buffer and
\* the AS count is the one the header declares.
C14_MmapFallback ==
  UnmappableOpened =>
    /\ ret.r = 0
    /\ db.as_count = ntohl(file.as_length) \div AsRecordSize

\* the pool bytes hold a NUL-terminated string at offset off
ResolvesInPool(data, off) ==
  /\ off >= 0
  /\ off < Len(data)
  /\ \E i \in (off + 1)..Len(data) : data[i] = 0

\* C15: in an opened database the vendor and description offsets resolve to
\* NUL-terminated strings inside the pool, and neither getter returns NULL.
C15_HeaderStringsResolve ==
  (ret.called /\ ret.r = 0 /\ db.alloc = "live") =>
    /\ ResolvesInPool(pool.data, db.vendor)
    /\ ResolvesInPool(pool.data, db.description)
    /\ res.op \in { "get_vendor", "get_description" } => ~ res.str.null

\* C17: an AS table that is not sorted strictly ascending is reported: a
\* loc_database_get_as on it returns an error, and never 0 with *as = NULL
\* for a number the table holds.
C17_UnsortedReported ==
  (GetAsDone /\ res.returned /\ TableInFile /\ ~ Sorted(Table)) =>
    /\ res.r # 0
    /\ InTable(res.number) => res.as.state # "NULL"

\* the byte k of address a put together from its bits, bit 8k first and
\* most significant
ByteFromBits(a, k) ==
  FromBits([ b \in 0..7 |-> in6_addr_get_bit(a, 8 * k + (7 - b)) ])

\* C18: after in6_addr_set_bit(A, i, v) bit i of A reads v and every other
\* bit reads as before; bit 0 is the most significant bit of byte 0 and bit
\* 127 the least significant bit of byte 15.
C18_SetBitGetBit ==
  calc.op = "set_bit" =>
    /\ in6_addr_get_bit(calc.out, calc.i) = calc.val
    /\ \A j \in 0..(AddrBits - 1) :
         j # calc.i => in6_addr_get_bit(calc.out, j) = in6_addr_get_bit(calc.a, j)
    /\ \A k \in 0..(AddrBytes - 1) :
         /\ ByteFromBits(calc.a, k) = calc.a[k]
         /\ ByteFromBits(calc.out, k) = calc.out[k]
    /\ in6_addr_get_bit(calc.out, 0) = calc.out[0] \div 128
    /\ in6_addr_get_bit(calc.out, AddrBits - 1) = calc.out[AddrBytes - 1] % 2

\* the last bit of an address is cleared by a call that finds it set
C18_Witness ==
  /\ calc.op = "set_bit"
  /\ calc.i = AddrBits - 1
  /\ calc.val = 0
  /\ in6_addr_get_bit(calc.a, calc.i) = 1
  /\ in6_addr_get_bit(calc.out, calc.i) = 0

\* C19: loc_prefix_to_bitmask(p) has bit i set exactly when i < p; the
\* partial byte of a p that is no multiple of 8 is the low byte of
\* 0xff << (8 - p mod 8).
C19_PrefixToBitmask ==
  calc.op = "bitmask" =>
    /\ \A i \in 0..(AddrBits - 1) :
         in6_addr_get_bit(calc.out, i) = IF i < calc.prefix THEN 1 ELSE 0
    /\ calc.prefix % 8 # 0 =>
         calc.out[calc.prefix \div 8] = (255 * Pow2(8 - (calc.prefix % 8))) % ByteRange

\* a mask whose last byte is the partial one
C19_Witness ==
  /\ calc.op = "bitmask"
  /\ calc.prefix = AddrBits - 3
  /\ calc.out[AddrBytes - 1] = 248
  /\ calc.out[AddrBytes - 2] = 255

\* C20: with M = loc_prefix_to_bitmask(p), loc_address_and(A, M) keeps the
\* first p bits of A and clears the rest, loc_address_or(A, M) keeps them
\* and sets the rest, and in6_addr_cmp orders first <= A <= last.
C20_FirstAndLastAddress ==
  /\ calc.op = "and" =>
       /\ \A i \in 0..(AddrBits - 1) :
            in6_addr_get_bit(calc.out, i) =
              IF i < calc.prefix THEN in6_addr_get_bit(calc.a, i) ELSE 0
       /\ in6_addr_cmp(calc.out, calc.a) <= 0
       /\ in6_addr_cmp(calc.a, calc.out) >= 0
  /\ calc.op = "or" =>
       /\ \A i \in 0..(AddrBits - 1) :
            in6_addr_get_bit(calc.out, i) =
              IF i < calc.prefix THEN in6_addr_get_bit(calc.a, i) ELSE 1
       /\ in6_addr_cmp(calc.a, calc.out) <= 0
       /\ in6_addr_cmp(calc.out, calc.a) >= 0

\* the last address of a network whose prefix ends inside a byte, strictly
\* above the address it was computed from
C20_Witness ==
  /\ calc.op = "or"
  /\ calc.prefix % 8 = 3
  /\ in6_addr_cmp(calc.a, calc.out) = -1
  /\ in6_addr_get_bit(calc.a, AddrBits - 1) = 0

\* what the call of thread record th gives back when nothing else runs
Alone(th) ==
  IF th.op = "get_as"
    THEN GetAs(build, db, file, mapping, th.number, 0)
    ELSE GetterResult(th.op)

AbsentAsQueried ==
  /\ call.op = "get_as"
  /\ self.state = "open"
  /\ \A k \in 1..Len(file.as) : file.as[k] # call.number

\* C12: in both bindings get_as(n) for an n that is not in the database
\* returns nil / None, and no AS object is built from or released through
\* a NULL pointer.
C12_AbsentAsIsNil ==
  AbsentAsQueried =>
    /\ call.result \in { "nil", "None" }
    /\ call.built # "NULL"
    /\ call.released # "NULL"

\* C13: Database.lookup of a well-formed address that no network covers
\* returns nil under either library convention: no error is raised and no
\* NULL network is handed to create_network or loc_network_unref.
C13_UncoveredLookupIsNil ==
  (call.op = "lookup" /\ call.address = "uncovered") =>
    /\ call.result = "nil"
    /\ call.built # "NULL"
    /\ call.released # "NULL"

\* C16: once the iterator of list_networks is dropped its enumerator is
\* released, and once the Database object is collected as well the
\* database has been torn down.
C16_DroppedIteratorReleased ==
  it.iter = "dropped" =>
    /\ it.enum = "released"
    /\ self.state = "collected" => (freed = 1 /\ db.alloc = "freed")

\* a step of one of the reader functions
ReaderStep ==
  \/ loc_database_get_as
  \/ loc_database_created_at
  \/ loc_database_get_vendor
  \/ loc_database_get_description
  \/ loc_database_count_as

\* C21: no reader call changes the opened database: version, created_at,
\* the vendor and description offsets, the AS count, the AS mapping and the
\* reference count are after the call what they were before it.
C21_ReadersLeaveDatabase ==
  [][(db' = db /\ mapping' = mapping /\ pool' = pool) \/ ~ ReaderStep]_vars

\* a search of two fetches has returned on a database nobody else refers to
C21_Witness ==
  /\ res.op = "get_as"
  /\ res.returned
  /\ res.fetched = 2
  /\ db.alloc = "live"
  /\ db.refcount = 1
  /\ mapping.state = "mapped"

RECURSIVE Log2Floor(_)
Log2Floor(n) == IF n <= 1 THEN 0 ELSE 1 + Log2Floor(n \div 2)

\* C22: loc_database_get_as returns after at most floor(log2 N) + 1
\* fetches, never with -EINVAL from a position outside [0, N), and for
\* N = 0 it fetches nothing and returns absent, on every build.
C22_GetAsTerminates ==
  (GetAsDone /\ TableInFile) =>
    /\ res.returned
    /\ res.r # -EINVAL
    /\ db.as_count > 0 => res.fetched <= Log2Floor(db.as_count) + 1
    /\ db.as_count = 0 =>
         (res.fetched = 0 /\ res.r = 0 /\ res.as.state = "NULL")

\* C23: when loc_database_get_as returns, every AS it fetched and did not
\* hand out has been released, and *as is the matching AS, or NULL, and
\* never a pointer to an AS that has been released.
C23_NoReleasedAsReturned ==
  (res.op = "get_as" /\ res.returned) =>
    /\ res.as.state # "released"
    /\ res.fetched - res.released = IF res.as.state = "live" THEN 1 ELSE 0
    /\ res.r = 0 => res.as.state \in { "live", "NULL" }
    /\ res.as.state = "live" => res.as.number = res.number

\* C24: a loc_database_new that fails leaves nothing behind: no database
\* object, no open duplicate of the FILE*, no mapping, no pool and no
\* reference on the context.
C24_FailedOpenLeavesNothing ==
  (ret.called /\ ret.r # 0) =>
    /\ db.alloc # "live"
    /\ streams.dup # "open"
    /\ mapping.state # "mapped"
    /\ pool.state # "live"
    /\ ctxRefs = 1

\* C25: what loc_database_new returns depends on the bytes of the file
\* only: it is what the call returns on a handle positioned at the start.
C25_PositionIndependent ==
  (ret.called /\ db.file # NULL) => ret.r = Opened(build, file).r

\* C26: a Lua Database userdata holds NULL or an opened database whenever
\* __gc can run on it: after a Database.open that raised the pointer is
\* NULL, __gc makes no wild loc_database_unref, and __gc run again releases
\* nothing a second time.
C26_GcSeesNullOrDatabase ==
  self.lang = "lua" =>
    /\ self.state \in { "open", "failed", "collected" } => self.db \in { "NULL", "db" }
    /\ self.state = "failed" => self.db = "NULL"
    /\ self.state = "collected" => ~ fault
    /\ freed <= 1

\* C27: with threads calling loc_database_ref and loc_database_unref at
\* the same time the count stays exact: whenever no call is under way it
\* is the number of references held, the database lives as long as a
\* reference is held and is freed once when the last one is released.
C27_RefcountExact ==
  /\ ~ fault
  /\ handles > 0 => db.alloc = "live"
  /\ (\A t \in Threads : thr[t].pc = "idle") =>
       /\ handles > 0 => db.refcount = handles
       /\ handles = 0 => (db.alloc = "freed" /\ freed = 1)

====
